---- MODULE Spec2Model ----
(***************************************************************************)
(* Model of the debuggerSession tool handlers of mcp-dap-server            *)
(* (src/tools.go).  One debuggerSession value `ds` is shared by all tool   *)
(* handlers.  Every handler is a sequence of DAPClient calls (a request    *)
(* send or a ReadMessage); each such call is one step of the model, so     *)
(* the debug adapter and other handlers can act between two calls.         *)
(*                                                                         *)
(* The DAPClient type and the debug adapter (dlv dap) are not in src/:     *)
(* the client is modelled as the framed duplex channel of the              *)
(* specification (a send appends one request, ReadMessage returns the      *)
(* next decoded message or fails once the stream is closed), the adapter   *)
(* as a process that answers every request with one response, in order,    *)
(* and emits events.  A response with success=false is decoded as an       *)
(* ErrorResponse, which is what tools.go:909 matches on.                   *)
(***************************************************************************)
EXTENDS Integers, Sequences, FiniteSets, TLC

\* ---------------------------------------------------------------- bounds
MaxOps == 3        \* tool calls made in one behaviour
MaxSpawn == 2      \* debugger subprocesses spawned in one behaviour
MaxFaults == 1     \* disturbances in one behaviour: an output event, a request
                   \* answered with success=false, a subprocess that fails to
                   \* start or exits by itself

AllCallers == {1, 2}

VARIABLES
  cmd,          \* ds.cmd: [set, pid]; set = FALSE is nil, pid = 0 is Process == nil
  client,       \* ds.client: 0 is nil, otherwise the pid of the adapter it dialled
  launchMode,   \* ds.launchMode
  programPath,  \* ds.programPath
  programArgs,  \* ds.programArgs
  procs,        \* subprocess pid -> "none" | "starting" | "listening" | "exited"
  connOpen,     \* the current client's socket has not been closed by Close()
  seq,          \* the current client's next request sequence number
  toAdapter,    \* requests written to the current connection, not yet handled
  toClient,     \* messages written by the adapter, not yet read by ReadMessage
  dbg,          \* debuggee of the current adapter: "none" | "halted" | "running" | "exited"
  entryStop,    \* stopOnEntry flag the current adapter was launched with
  fileBps,      \* the current adapter's breakpoint table: file -> set of lines
  funcBps,      \* the current adapter's function-breakpoint table
  pc,           \* per caller: the handler's position ("idle" between calls)
  op,           \* per caller: the call in progress or last finished
  res,          \* per caller: result of the last finished call
  loc,          \* per caller: the handler's local variables
  nOps, nFaults   \* budgets used

dsVars == <<cmd, client, launchMode, programPath, programArgs>>
chanVars == <<connOpen, seq, toAdapter, toClient>>
adVars == <<dbg, entryStop, fileBps, funcBps>>
callVars == <<pc, op, res, loc>>
cntVars == <<nOps, nFaults>>
vars == <<dsVars, procs, chanVars, adVars, callVars, cntVars>>

\* ---------------------------------------------------------------- values
NilCmd == [set |-> FALSE, pid |-> 0]
Pids == 1..MaxSpawn

None == [kind |-> "none", what |-> ""]
Ok(w) == [kind |-> "ok", what |-> w]
Err(w) == [kind |-> "err", what |-> w]

Request(s, c, a) == [seq |-> s, command |-> c, arg |-> a]
Response(r, ok, b) ==
  [type |-> "response", rseq |-> r.seq, name |-> r.command, success |-> ok,
   body |-> b]
Event(e) ==
  [type |-> "event", rseq |-> 0, name |-> e, success |-> TRUE, body |-> <<>>]

\* The Go type ReadMessage decodes a message to: a failed response is an
\* ErrorResponse whatever its command, a successful one has its command's type.
MsgType(m) ==
  IF m.type = "event" THEN "event"
  ELSE IF m.success THEN m.name ELSE "error"

IsResponse(m) == m.type = "response"
IsEvent(m) == m.type = "event"

\* A handler's locals.  i: loop index; pid: the subprocess whose stdout debug
\* reads; scopes: the scopes getFullContext iterates over; own: sequence number of the request it
\* sent last; got: requestSeq of the response it read last (0: none);
\* io: it has called the client; ev: it has read an event; nack: it has read
\* a response with success=false.  stack: getFullContext has written the
\* location and stack sections of its text; frames: the ids of the frames of
\* the StackTraceResponse; vars: what it has written under
\* the heading of each scope so far (0: the "unable to retrieve variables"
\* marker, n > 0: the variables of container n, -1: nothing).  cancelled:
\* the ctx the handler was called with has been cancelled.
NoLoc == [i |-> 0, pid |-> 0, scopes |-> <<>>,
          own |-> 0, got |-> 0, io |-> FALSE, ev |-> FALSE, nack |-> FALSE,
          stack |-> FALSE, frames |-> <<>>, vars |-> <<>>, cancelled |-> FALSE]
NoArg == [none |-> TRUE]

Modes == {"source", "binary", "attach", "other"}
Paths == {"", "prog"}
ProcessIDs == {0, 7}
ArgLists == {<<>>, <<"a">>}
FileBp == [file |-> "f", line |-> 3, function |-> ""]
FuncBp == [file |-> "", line |-> 0, function |-> "g"]
EmptyBp == [file |-> "", line |-> 0, function |-> ""]
FileBp9 == [file |-> "f", line |-> 9, function |-> ""]
FileBpH == [file |-> "h", line |-> 3, function |-> ""]
FuncBpK == [file |-> "", line |-> 0, function |-> "k"]
BpLists == {<<>>, <<FileBp>>, <<FuncBp, EmptyBp>>}

\* The files requests name, and an adapter's tables with no breakpoint set.
Files == {"f", "h"}
NoFileBps == [x \in Files |-> {}]

\* The arguments of SetBreakpointsRequest(file, lines) and of
\* SetFunctionBreakpointsRequest(functions).
SetBreakpointsArgs(file, lines) == [file |-> file, lines |-> lines]
SetFunctionBreakpointsArgs(functions) == [functions |-> functions]

\* ------------------------------------------------------------------ Init
Init ==
  /\ cmd = NilCmd
  /\ client = 0
  /\ launchMode = ""
  /\ programPath = ""
  /\ programArgs = <<>>
  /\ procs = [p \in Pids |-> "none"]
  /\ connOpen = FALSE
  /\ seq = 1
  /\ toAdapter = <<>>
  /\ toClient = <<>>
  /\ dbg = "none"
  /\ entryStop = FALSE
  /\ fileBps = NoFileBps
  /\ funcBps = {}
  /\ pc = [t \in AllCallers |-> "idle"]
  /\ op = [t \in AllCallers |-> [name |-> "", id |-> 0, arg |-> NoArg]]
  /\ res = [t \in AllCallers |-> None]
  /\ loc = [t \in AllCallers |-> NoLoc]
  /\ nOps = 0
  /\ nFaults = 0

\* ------------------------------------------------- the connection (DAPClient)
\* The peer of the current client is up.
PeerUp == client # 0 /\ procs[client] = "listening"
\* A request written now reaches the adapter.
ConnUp == PeerUp /\ connOpen

\* ReadMessage returns: a message is buffered, or the stream has ended.
\* With ds.client == nil the call dereferences nil.
CanRead == client = 0 \/ ~connOpen \/ toClient # <<>> \/ ~PeerUp
ReadFails == ~connOpen \/ toClient = <<>>

\* ------------------------------------------------------- handler plumbing
\* Caller t moves to label l with locals v; l = "idle" returns r to the caller.
Move(t, l, r, v) ==
  /\ pc' = [pc EXCEPT ![t] = l]
  /\ res' = [res EXCEPT ![t] = r]
  /\ loc' = [loc EXCEPT ![t] = v]
  /\ op' = IF l = "idle" THEN [op EXCEPT ![t].arg = NoArg] ELSE op

\* A tool call arrives at caller t: handler `name` starts with arguments a.
Entered(t, name, a) == [name |-> name, id |-> nOps + 1, arg |-> a]
CanCall(t) == pc[t] = "idle" /\ nOps < MaxOps

\* Handler entry that returns at once with r (a guard failed).
Reject(t, name, r) ==
  /\ pc' = pc
  /\ op' = [op EXCEPT ![t] = Entered(t, name, NoArg)]
  /\ res' = [res EXCEPT ![t] = r]
  /\ loc' = [loc EXCEPT ![t] = NoLoc]
  /\ nOps' = nOps + 1

\* Handler entry that passes its guards and goes on at label l.
Enter(t, name, a, l) ==
  /\ pc' = [pc EXCEPT ![t] = l]
  /\ op' = [op EXCEPT ![t] = Entered(t, name, a)]
  /\ res' = [res EXCEPT ![t] = None]
  /\ loc' = [loc EXCEPT ![t] = NoLoc]
  /\ nOps' = nOps + 1

\* ds.client.<X>Request(...): one request with the next sequence number is
\* written; on a dead connection the call returns an error.
SendReq(c, a) ==
  /\ seq' = seq + 1
  /\ toAdapter' = IF ConnUp THEN Append(toAdapter, Request(seq, c, a)) ELSE toAdapter
  /\ UNCHANGED <<connOpen, toClient>>

Sent(t) == [loc[t] EXCEPT !.own = seq, !.got = 0, !.io = TRUE]

\* `if err := ds.client.<X>Request(...); err != nil { return nil, err }`
\* from label `from`, going on at `to`.
SendStep(t, from, c, a, to) ==
  /\ pc[t] = from
  /\ IF client = 0
       THEN /\ Move(t, "idle", Err("panic"), loc[t])
            /\ UNCHANGED chanVars
       ELSE /\ SendReq(c, a)
            /\ IF ConnUp THEN Move(t, to, res[t], Sent(t))
                         ELSE Move(t, "idle", Err("transport"), Sent(t))
  /\ UNCHANGED <<dsVars, procs, adVars, cntVars>>

\* What a handler does with a message it has read: read again ("loop"), go on
\* ("ok"), return "Program terminated" ("term"), or return the error `what`.
Loop == [next |-> "loop", what |-> ""]
GoOn == [next |-> "ok", what |-> ""]
Term == [next |-> "term", what |-> ""]
Fail(w) == [next |-> "err", what |-> w]

\* The message the next ReadMessage call returns.
Msg == Head(toClient)

\* getFullContext keeps the scopes of the ScopesResponse for its loop over
\* them (tools.go:808); no other read stores anything of its message.
Kept(v, to) ==
  IF to = "ctx_vars" THEN [v EXCEPT !.i = 0, !.scopes = Msg.body]
  ELSE IF to = "ctx_scopes" THEN [v EXCEPT !.stack = TRUE, !.frames = Msg.body]
  ELSE v

\* One ReadMessage call of caller t at label `from`; d is what the handler
\* decides on the message Msg.  On "ok" the handler goes on at label `to`
\* (returning r if to = "idle").
ReadStep(t, from, d, to, r) ==
  /\ pc[t] = from
  /\ CanRead
  /\ IF client = 0
       THEN /\ Move(t, "idle", Err("panic"), loc[t])
            /\ UNCHANGED chanVars
       ELSE IF ReadFails
       THEN /\ Move(t, "idle", Err("transport"), [loc[t] EXCEPT !.io = TRUE])
            /\ UNCHANGED chanVars
       ELSE LET v == [loc[t] EXCEPT !.io = TRUE,
                                    !.ev = @ \/ IsEvent(Msg),
                                    !.nack = @ \/ (IsResponse(Msg) /\ ~Msg.success),
                                    !.got = IF IsResponse(Msg) THEN Msg.rseq ELSE @]
            IN  /\ toClient' = Tail(toClient)
                /\ UNCHANGED <<connOpen, seq, toAdapter>>
                /\ CASE d.next = "loop" -> Move(t, from, res[t], v)
                     [] d.next = "ok" ->
                          Move(t, to, IF to = "idle" THEN r ELSE res[t], Kept(v, to))
                     [] d.next = "term" -> Move(t, "idle", Ok("Program terminated"), v)
                     [] OTHER -> Move(t, "idle", Err(d.what), v)
  /\ UNCHANGED <<dsVars, procs, adVars, cntVars>>

\* readAndValidateResponse: events are skipped, the first response decides.
readAndValidateResponse(m) ==
  IF IsResponse(m)
    THEN IF ~m.success THEN Fail("adapter") ELSE GoOn
    ELSE Loop

\* `if _, err := ds.client.ReadMessage(); err != nil`: any message will do.
ReadAnyMessage(m) == GoOn

\* setVariable, disassembleCode: the one message read must be a response.
ReadOneResponse(m) ==
  IF IsResponse(m)
    THEN IF ~m.success THEN Fail("adapter") ELSE GoOn
    ELSE Fail("unexpected")

\* info: the one message read must be the response type of command c.
ReadOneTyped(m, c) == IF MsgType(m) = c THEN GoOn ELSE Fail("unexpected")

\* evaluateExpression, getFullContext: events are skipped, the first other
\* message must be the response type of command c.
ReadTyped(m, c) ==
  IF MsgType(m) = c THEN GoOn
  ELSE IF IsEvent(m) THEN Loop
  ELSE Fail("unexpected")

\* continueExecution, step: wait for a stopped or terminated event; a failed
\* response ends the wait with an error, anything else is skipped.
WaitStopped(m) ==
  IF IsResponse(m)
    THEN IF ~m.success THEN Fail("adapter") ELSE Loop
    ELSE IF m.name = "stopped" THEN GoOn
    ELSE IF m.name = "terminated" THEN Term
    ELSE Loop

\* debug: wait for a stopped or terminated event, skipping everything else.
WaitStoppedOrTerminated(m) ==
  IF IsEvent(m) /\ m.name \in {"stopped", "terminated"} THEN GoOn ELSE Loop

\* ------------------------------------------- subprocess and debug adapter
\* dlv prints "DAP server listening at" and accepts a connection.
ProcReady(p) ==
  /\ procs[p] = "starting"
  /\ procs' = [procs EXCEPT ![p] = "listening"]
  /\ UNCHANGED <<dsVars, chanVars, adVars, callVars, cntVars>>

\* A subprocess exits by itself (its port is taken, it crashes, it is killed
\* from outside).  Requests it has not handled are lost; what it wrote can
\* still be read.
ProcExit(p) ==
  /\ procs[p] \in {"starting", "listening"}
  /\ nFaults < MaxFaults
  /\ nFaults' = nFaults + 1
  /\ procs' = [procs EXCEPT ![p] = "exited"]
  /\ toAdapter' = IF p = client THEN <<>> ELSE toAdapter
  /\ UNCHANGED <<dsVars, connOpen, seq, toClient, adVars, callVars, nOps>>

Resumes == {"continue", "next", "stepIn", "stepOut"}

\* The adapter may refuse request r: always when it has no debuggee to act
\* on, otherwise while its budget of failures lasts.
MustFail(r) == r.command \in Resumes \cup {"pause"} /\ dbg \in {"none", "exited"}
MayFail(r) == nFaults < MaxFaults /\ r.command \notin {"initialize", "terminate", "disconnect"}

\* The debuggee state after the adapter has carried out request r.
DbgAfter(r) ==
  CASE r.command \in {"launch", "attach"} -> "halted"
    [] r.command = "configurationDone" ->
         IF dbg = "halted" /\ ~entryStop THEN "running" ELSE dbg
    [] r.command \in Resumes -> IF dbg = "halted" THEN "running" ELSE dbg
    [] r.command = "restart" -> "running"
    [] r.command \in {"terminate", "disconnect"} ->
         IF dbg = "none" THEN "none" ELSE "exited"
    [] OTHER -> dbg

\* The stack the adapter reports: the id of its top frame.
TopFrame == 10

\* The scopes the adapter reports for a frame: their variablesReference.  The
\* top frame has two scopes with variables, any other frame one with
\* variables and one without.
AdapterScopes == <<1, 2>>
FrameScopes(frameId) == IF frameId = TopFrame THEN AdapterScopes ELSE <<3, 0>>

\* The functions of the debugged program: a function breakpoint on any other
\* name is accepted and reported as not verified.
ProgramFunctions == {"g"}

\* The body of the response to request r; for a breakpoint request, whether
\* its breakpoint is verified.
Body(r) ==
  CASE r.command = "stackTrace" -> <<TopFrame>>
    [] r.command = "scopes" -> FrameScopes(r.arg.frameId)
    [] r.command = "variables" -> <<r.arg>>
    [] r.command = "setFunctionBreakpoints" ->
         IF r.arg.functions = {} THEN <<>>
         ELSE <<r.arg.functions \subseteq ProgramFunctions>>
    [] r.command = "setBreakpoints" -> IF r.arg.lines = {} THEN <<>> ELSE <<TRUE>>
    [] OTHER -> <<>>

\* A breakpoint table to which a setBreakpoints request adds its lines.
FileBpsAdded(r) ==
  IF r.command = "setBreakpoints"
    THEN [fileBps EXCEPT ![r.arg.file] = @ \cup r.arg.lines]
    ELSE fileBps

\* The breakpoint tables after the adapter has carried out request r: a
\* setBreakpoints request sets the table of its file to its lines, a
\* setFunctionBreakpoints request sets the function table to its functions.
FileBpsAfter(r) ==
  IF r.command = "setBreakpoints"
    THEN [fileBps EXCEPT ![r.arg.file] = r.arg.lines]
    ELSE fileBps
FuncBpsAfter(r) ==
  IF r.command = "setFunctionBreakpoints" THEN r.arg.functions ELSE funcBps

\* The messages the adapter writes for a request it has carried out.
Replies(r) ==
  CASE r.command \in {"launch", "attach"} ->
         <<Event("initialized"), Response(r, TRUE, Body(r))>>
    [] r.command = "configurationDone" /\ dbg = "halted" /\ entryStop ->
         <<Event("stopped"), Response(r, TRUE, Body(r))>>
    [] r.command = "terminate" /\ dbg \in {"halted", "running"} ->
         <<Response(r, TRUE, Body(r)), Event("terminated")>>
    [] OTHER -> <<Response(r, TRUE, Body(r))>>

\* The adapter takes the oldest request and answers it.
AdapterHandle ==
  /\ ConnUp
  /\ toAdapter # <<>>
  /\ LET r == Head(toAdapter) IN
       /\ toAdapter' = IF r.command = "disconnect" THEN <<>> ELSE Tail(toAdapter)
       /\ \/ /\ ~MustFail(r)
             /\ toClient' = toClient \o Replies(r)
             /\ dbg' = DbgAfter(r)
             /\ entryStop' = IF r.command = "launch" THEN r.arg.stopOnEntry
                             ELSE IF r.command \in {"attach", "restart"} THEN FALSE
                             ELSE entryStop
             /\ fileBps' = FileBpsAfter(r)
             /\ funcBps' = FuncBpsAfter(r)
             /\ procs' = IF r.command = "disconnect"
                           THEN [procs EXCEPT ![client] = "exited"] ELSE procs
             /\ UNCHANGED nFaults
          \/ /\ MustFail(r) \/ MayFail(r)
             /\ toClient' = Append(toClient, Response(r, FALSE, <<>>))
             /\ nFaults' = IF MustFail(r) THEN nFaults ELSE nFaults + 1
             /\ UNCHANGED <<adVars, procs>>
  /\ UNCHANGED <<dsVars, connOpen, seq, callVars, nOps>>

\* The running debuggee hits a breakpoint, finishes a step or is paused.
DebuggeeStops ==
  /\ PeerUp /\ dbg = "running"
  /\ dbg' = "halted"
  /\ toClient' = Append(toClient, Event("stopped"))
  /\ UNCHANGED <<dsVars, procs, connOpen, seq, toAdapter, entryStop, fileBps, funcBps,
                 callVars, cntVars>>

\* The running debuggee exits.
DebuggeeExits ==
  /\ PeerUp /\ dbg = "running"
  /\ dbg' = "exited"
  /\ toClient' = Append(toClient, Event("terminated"))
  /\ UNCHANGED <<dsVars, procs, connOpen, seq, toAdapter, entryStop, fileBps, funcBps,
                 callVars, cntVars>>

\* The adapter reports output of the debuggee at a time of its own choosing.
AdapterOutput ==
  /\ PeerUp /\ dbg # "none"
  /\ nFaults < MaxFaults
  /\ nFaults' = nFaults + 1
  /\ toClient' = Append(toClient, Event("output"))
  /\ UNCHANGED <<dsVars, procs, connOpen, seq, toAdapter, adVars, callVars, nOps>>

Environment ==
  \/ \E p \in Pids : ProcReady(p)
  \/ \E p \in Pids : ProcExit(p)
  \/ AdapterHandle
  \/ DebuggeeStops
  \/ DebuggeeExits
  \/ AdapterOutput

\* ------------------------------------------------------------------ stop
\* The idle test of stop with its second comparison inverted.
NoSessionInverted == ~cmd.set /\ client # 0

\* tools.go:484: nothing to stop.
NoSession == ~cmd.set /\ client = 0

stop(t) ==
  /\ CanCall(t)
  /\ IF NoSession
       THEN Reject(t, "stop", Ok("No debug session active"))
       ELSE Enter(t, "stop", NoArg,
                  IF client # 0 THEN "stop_terminate" ELSE "stop_kill")
  /\ UNCHANGED <<dsVars, procs, chanVars, adVars, nFaults>>

\* The request of stop written as the other handlers write theirs: a failed
\* send ends the call with the error.
stop_sendOrReturn(t, from, c, to) == SendStep(t, from, c, NoArg, to)

\* The request of stop written only once the adapter has answered every
\* request before it.
stop_sendAnswered(t, from, c, to) ==
  /\ pc[t] = from
  /\ toAdapter = <<>>
  /\ IF client = 0
       THEN /\ Move(t, "idle", Err("panic"), loc[t])
            /\ UNCHANGED chanVars
       ELSE /\ SendReq(c, NoArg)
            /\ Move(t, to, res[t], Sent(t))
  /\ UNCHANGED <<dsVars, procs, adVars, cntVars>>

\* A request whose error is only logged (TerminateRequest, DisconnectRequest).
stop_send(t, from, c, to) ==
  /\ pc[t] = from
  /\ IF client = 0
       THEN /\ Move(t, "idle", Err("panic"), loc[t])
            /\ UNCHANGED chanVars
       ELSE /\ SendReq(c, NoArg)
            /\ Move(t, to, res[t], Sent(t))
  /\ UNCHANGED <<dsVars, procs, adVars, cntVars>>

stop_terminate(t) == stop_send(t, "stop_terminate", "terminate", "stop_disconnect")
stop_disconnect(t) == stop_send(t, "stop_disconnect", "disconnect", "stop_close")

\* ds.client.Close(); ds.client = nil
stop_close(t) ==
  /\ pc[t] = "stop_close"
  /\ client' = 0
  /\ connOpen' = FALSE
  /\ seq' = 1
  /\ toAdapter' = <<>>
  /\ toClient' = <<>>
  /\ dbg' = "none"
  /\ entryStop' = FALSE
  /\ fileBps' = NoFileBps
  /\ funcBps' = {}
  /\ Move(t, "stop_kill", res[t], loc[t])
  /\ UNCHANGED <<cmd, launchMode, programPath, programArgs, procs, cntVars>>

\* Kill and reap the subprocess when ds.cmd has one, then clear the session.
HasProcess == cmd.set /\ cmd.pid # 0

stop_kill(t) ==
  /\ pc[t] = "stop_kill"
  /\ IF HasProcess
       THEN /\ procs' = [procs EXCEPT ![cmd.pid] = "exited"]
            /\ cmd' = NilCmd
            /\ toAdapter' = IF cmd.pid = client THEN <<>> ELSE toAdapter
       ELSE UNCHANGED <<procs, cmd, toAdapter>>
  /\ launchMode' = ""
  /\ programPath' = ""
  /\ programArgs' = <<>>
  /\ Move(t, "idle", Ok("Debug session stopped"), loc[t])
  /\ UNCHANGED <<client, connOpen, seq, toClient, adVars, cntVars>>

\* ----------------------------------------------------------------- debug
ValidMode(mode) == mode \in {"source", "binary", "attach"}
\* The validation of debug without its test of the path.
ValidStartNoPath(a) ==
  ValidMode(a.mode) /\ (a.mode = "attach" => a.processID # 0)

ValidStart(a) ==
  /\ ValidMode(a.mode)
  /\ IF a.mode = "attach" THEN a.processID # 0 ELSE a.path # ""

\* The arguments debug reads after validation: processID only to attach.
Read(a) == IF a.mode = "attach" THEN a ELSE [a EXCEPT !.processID = 0]

FreePids == {p \in Pids : procs[p] = "none"}
NewPid == CHOOSE p \in FreePids : \A q \in FreePids : p <= q

\* Callers about to spawn a subprocess.
Spawning == {u \in AllCallers : pc[u] = "debug_start"}

DebugParams ==
  [mode : Modes, path : Paths, processID : ProcessIDs, args : ArgLists,
   breakpoints : BpLists, stopOnEntry : BOOLEAN]

\* The calls of debug tried: every mode, path, processID, stopOnEntry and list
\* of initial breakpoints, with one argument list.
StartInputs ==
  {a \in DebugParams : a.args = <<"a">>}

\* One call of debug has arguments in the set `inputs`.
debugCall(t, inputs) ==
  /\ CanCall(t)
  /\ \E a \in inputs :
       IF ~ValidStart(a)
         THEN Reject(t, "debug", Err("invalid"))
         ELSE /\ Cardinality(FreePids) > Cardinality(Spawning)
              /\ Enter(t, "debug", Read(a), "debug_start")
  /\ UNCHANGED <<dsVars, procs, chanVars, adVars, nFaults>>

debug(t) == debugCall(t, StartInputs)

\* ds.cmd = exec.Command(...); ds.cmd.Start()
debug_start(t) ==
  /\ pc[t] = "debug_start"
  /\ \/ /\ nFaults < MaxFaults
        /\ nFaults' = nFaults + 1
        /\ cmd' = [set |-> TRUE, pid |-> 0]
        /\ Move(t, "idle", Err("spawn"), loc[t])
        /\ UNCHANGED procs
     \/ /\ cmd' = [set |-> TRUE, pid |-> NewPid]
        /\ procs' = [procs EXCEPT ![NewPid] = "starting"]
        /\ Move(t, "debug_ready", res[t], [loc[t] EXCEPT !.pid = NewPid])
        /\ UNCHANGED nFaults
  /\ UNCHANGED <<client, launchMode, programPath, programArgs, chanVars, adVars, nOps>>

\* The loop reading the subprocess's stdout ends with the readiness line or
\* with the end of the stream; after the readiness line
\* ds.client = newDAPClient("localhost" + port) dials the listening port.
debug_ready(t) ==
  /\ pc[t] = "debug_ready"
  /\ procs[loc[t].pid] \in {"listening", "exited"}
  /\ IF procs[loc[t].pid] = "listening"
       THEN /\ client' = loc[t].pid
            /\ connOpen' = TRUE
            /\ seq' = 1
            /\ toAdapter' = <<>>
            /\ toClient' = <<>>
            /\ dbg' = "none"
            /\ entryStop' = FALSE
            /\ fileBps' = NoFileBps
            /\ funcBps' = {}
            /\ Move(t, "debug_init", res[t], [loc[t] EXCEPT !.pid = 0])
       ELSE /\ Move(t, "idle", Err("transport"), [loc[t] EXCEPT !.pid = 0])
            /\ UNCHANGED <<client, chanVars, adVars>>
  /\ UNCHANGED <<cmd, launchMode, programPath, programArgs, procs, cntVars>>

debug_initialize(t) == SendStep(t, "debug_init", "initialize", NoArg, "debug_initR")
debug_initializeRead(t) ==
  ReadStep(t, "debug_initR", ReadAnyMessage(Msg), "debug_launch", None)

\* The stopOnEntry of the launch request as the caller gave it.
LaunchStopOnEntryAsGiven(a) == a.stopOnEntry

\* The launch request of mode source and binary carries this stopOnEntry.
LaunchStopOnEntry(a) == a.stopOnEntry \/ Len(a.breakpoints) = 0

\* Store the session state, then LaunchRequest or AttachRequest.
debug_launch(t) ==
  /\ pc[t] = "debug_launch"
  /\ LET a == op[t].arg IN
       IF client = 0
         THEN /\ Move(t, "idle", Err("panic"), loc[t])
              /\ UNCHANGED <<chanVars, launchMode, programPath, programArgs>>
         ELSE /\ launchMode' = a.mode
              /\ programPath' = a.path
              /\ programArgs' = a.args
              /\ IF a.mode = "attach"
                   THEN SendReq("attach", [processID |-> a.processID])
                   ELSE SendReq("launch", [mode |-> a.mode, args |-> a.args,
                                           stopOnEntry |-> LaunchStopOnEntry(a)])
              /\ IF ConnUp THEN Move(t, "debug_launchR", res[t], Sent(t))
                           ELSE Move(t, "idle", Err("transport"), Sent(t))
  /\ UNCHANGED <<cmd, client, procs, adVars, cntVars>>

debug_launchRead(t) ==
  ReadStep(t, "debug_launchR", readAndValidateResponse(Msg), "debug_bp", None)

\* The breakpoint the loop at tools.go:614 is at.
CurBp(t) == op[t].arg.breakpoints[loc[t].i + 1]
MoreBps(t) == loc[t].i < Len(op[t].arg.breakpoints)

debug_setBreakpoint(t) ==
  /\ pc[t] = "debug_bp"
  /\ MoreBps(t)
  /\ LET bp == CurBp(t)
         n == [loc EXCEPT ![t].i = @ + 1]
     IN IF client = 0
          THEN /\ Move(t, "idle", Err("panic"), loc[t])
               /\ UNCHANGED chanVars
          ELSE IF bp.function # ""
          THEN /\ SendReq("setFunctionBreakpoints",
                       SetFunctionBreakpointsArgs({bp.function}))
               /\ IF ConnUp
                    THEN Move(t, "debug_bpF", res[t], [Sent(t) EXCEPT !.i = @ + 1])
                    ELSE Move(t, "idle", Err("transport"), Sent(t))
          ELSE IF bp.file # "" /\ bp.line > 0
          THEN /\ SendReq("setBreakpoints", SetBreakpointsArgs(bp.file, {bp.line}))
               /\ IF ConnUp
                    THEN Move(t, "debug_bpL", res[t], [Sent(t) EXCEPT !.i = @ + 1])
                    ELSE Move(t, "idle", Err("transport"), Sent(t))
          ELSE /\ Move(t, "debug_bp", res[t], n[t])
               /\ UNCHANGED chanVars
  /\ UNCHANGED <<dsVars, procs, adVars, cntVars>>

debug_functionBreakpointRead(t) ==
  ReadStep(t, "debug_bpF", readAndValidateResponse(Msg), "debug_bp", None)
debug_breakpointRead(t) ==
  ReadStep(t, "debug_bpL", ReadAnyMessage(Msg), "debug_bp", None)

debug_configurationDone(t) ==
  /\ pc[t] = "debug_bp"
  /\ ~MoreBps(t)
  /\ SendStep(t, "debug_bp", "configurationDone", NoArg, "debug_confR")

\* The test of tools.go:641 without its stopOnEntry half.
AutoResumeAnyBreakpoint(a) == Len(a.breakpoints) > 0

\* tools.go:641: run to the first breakpoint.
AutoResume(a) == Len(a.breakpoints) > 0 /\ ~a.stopOnEntry

debug_configurationDoneRead(t) ==
  ReadStep(t, "debug_confR", readAndValidateResponse(Msg),
           IF AutoResume(op[t].arg) THEN "debug_cont" ELSE "idle",
           Ok("Debug session started"))

debug_continue(t) == SendStep(t, "debug_cont", "continue", NoArg, "debug_wait")
debug_wait(t) ==
  ReadStep(t, "debug_wait", WaitStoppedOrTerminated(Msg), "ctx_stack", None)

\* -------------------------------------------------------- getFullContext
\* The guard testing the subprocess handle in place of the connection.
NotStartedByCmd == ~cmd.set

\* The guard every handler but debug and stop starts with.
NotStarted == client = 0

\* The arguments getFullContext is called with: by context its parameters
\* with thread 1 and 20 frames for those left out (tools.go:670-678), by
\* continue and step the thread of the StoppedEvent (the adapter's thread 1),
\* by debug thread 1, and by these frame 0 and 20 frames.
getFullContextArgs(t) ==
  IF op[t].name = "context"
    THEN [threadID |-> IF op[t].arg.threadId = 0 THEN 1 ELSE op[t].arg.threadId,
          frameID |-> op[t].arg.frameId,
          maxFrames |-> IF op[t].arg.maxFrames = 0 THEN 20 ELSE op[t].arg.maxFrames]
    ELSE [threadID |-> 1, frameID |-> 0, maxFrames |-> 20]

getFullContext_stackTrace(t) ==
  /\ pc[t] = "ctx_stack"
  /\ IF NotStarted
       THEN /\ Move(t, "idle", Err("debugger not started"), loc[t])
            /\ UNCHANGED <<dsVars, procs, chanVars, adVars, cntVars>>
       ELSE SendStep(t, "ctx_stack", "stackTrace",
                     [threadId |-> getFullContextArgs(t).threadID,
                      levels |-> getFullContextArgs(t).maxFrames], "ctx_stackR")
\* A read of the stack trace that takes any message for the stack.
getFullContext_stackTraceReadAny(t) ==
  ReadStep(t, "ctx_stackR", ReadAnyMessage(Msg), "ctx_scopes", None)

\* tools.go:744-759: events are skipped; a StackTraceResponse gives the frames.
getFullContext_stackTraceRead(t) ==
  ReadStep(t, "ctx_stackR", ReadTyped(Msg, "stackTrace"), "ctx_scopes", None)
\* A focus frame that is always the top frame of the stack.
TopFrameID(frameID, frames) == IF Len(frames) > 0 THEN frames[1] ELSE frameID

\* tools.go:791-794: the frame given, else the top frame of the stack.
TargetFrameID(frameID, frames) ==
  IF frameID = 0 /\ Len(frames) > 0 THEN frames[1] ELSE frameID

getFullContext_scopes(t) ==
  /\ pc[t] = "ctx_scopes"
  /\ SendStep(t, "ctx_scopes", "scopes",
              [frameId |-> TargetFrameID(getFullContextArgs(t).frameID, loc[t].frames)],
              "ctx_scopesR")
getFullContext_scopesRead(t) ==
  ReadStep(t, "ctx_scopesR", ReadTyped(Msg, "scopes"), "ctx_vars", None)

\* The scope the loop at tools.go:826 is at.
MoreScopes(t) == loc[t].i < Len(loc[t].scopes)

\* VariablesRequest for the next scope that has a variablesReference; a
\* failed send marks the scope unavailable and the loop goes on.
getFullContext_variables(t) ==
  /\ pc[t] = "ctx_vars"
  /\ MoreScopes(t)
  /\ LET ref == loc[t].scopes[loc[t].i + 1] IN
       IF ref <= 0
         THEN /\ Move(t, "ctx_vars", res[t],
                       [loc[t] EXCEPT !.i = @ + 1, !.vars = Append(@, -1)])
              /\ UNCHANGED chanVars
         ELSE IF client = 0
         THEN /\ Move(t, "idle", Err("panic"), loc[t])
              /\ UNCHANGED chanVars
         ELSE /\ SendReq("variables", ref)
              /\ IF ConnUp
                   THEN Move(t, "ctx_varsR", res[t], [Sent(t) EXCEPT !.i = @ + 1])
                   ELSE Move(t, "ctx_vars", res[t],
                             [Sent(t) EXCEPT !.i = @ + 1, !.vars = Append(@, 0)])
  /\ UNCHANGED <<dsVars, procs, adVars, cntVars>>

\* What getFullContext writes for the message read as a scope's variables:
\* the variables of a successful VariablesResponse, else the marker.
Listed(m) == IF MsgType(m) = "variables" THEN m.body[1] ELSE 0

\* One ReadMessage for the scope's variables: a read error or a message that
\* is not a VariablesResponse marks the scope unavailable; the loop goes on.
getFullContext_variablesRead(t) ==
  /\ pc[t] = "ctx_varsR"
  /\ CanRead
  /\ IF client = 0
       THEN /\ Move(t, "idle", Err("panic"), loc[t])
            /\ UNCHANGED chanVars
       ELSE IF ReadFails
       THEN /\ Move(t, "ctx_vars", res[t], [loc[t] EXCEPT !.vars = Append(@, 0)])
            /\ UNCHANGED chanVars
       ELSE LET m == Head(toClient) IN
            /\ toClient' = Tail(toClient)
            /\ UNCHANGED <<connOpen, seq, toAdapter>>
            /\ Move(t, "ctx_vars", res[t],
                    [loc[t] EXCEPT !.ev = @ \/ IsEvent(m),
                                   !.nack = @ \/ (IsResponse(m) /\ ~m.success),
                                   !.got = IF IsResponse(m) THEN m.rseq ELSE @,
                                   !.vars = Append(@, Listed(m))])
  /\ UNCHANGED <<dsVars, procs, adVars, cntVars>>

getFullContext_return(t) ==
  /\ pc[t] = "ctx_vars"
  /\ ~MoreScopes(t)
  /\ Move(t, "idle", Ok("context"), [loc[t] EXCEPT !.i = 0, !.scopes = <<>>])
  /\ UNCHANGED <<dsVars, procs, chanVars, adVars, cntVars>>

\* ContextParams: threadId, frameId and maxFrames, each given or left out.
ContextParams == [threadId : {0, 2}, frameId : {0, 7}, maxFrames : {0, 3}]

\* One call of context has arguments in the set `params`.
contextCall(t, params) ==
  /\ CanCall(t)
  /\ IF NotStarted
       THEN Reject(t, "context", Err("debugger not started"))
       ELSE \E a \in params : Enter(t, "context", a, "ctx_stack")
  /\ UNCHANGED <<dsVars, procs, chanVars, adVars, nFaults>>

\* context called without arguments.
context(t) == contextCall(t, {[threadId |-> 0, frameId |-> 0, maxFrames |-> 0]})

\* ------------------------------------------------ continueExecution, step
\* params.Arguments.To: absent, a file and line, a function, or neither.
ToTargets == {NoArg, FileBp, FuncBp, EmptyBp}

continueExecution(t) ==
  /\ CanCall(t)
  /\ IF NotStarted
       THEN Reject(t, "continue", Err("debugger not started"))
       ELSE \E to \in ToTargets :
              Enter(t, "continue", to, IF to = NoArg THEN "cont_send" ELSE "cont_to")
  /\ UNCHANGED <<dsVars, procs, chanVars, adVars, nFaults>>

\* The temporary breakpoint of `to`.
continueExecution_to(t) ==
  /\ pc[t] = "cont_to"
  /\ LET to == op[t].arg IN
       IF to.function # ""
         THEN SendStep(t, "cont_to", "setFunctionBreakpoints",
                       SetFunctionBreakpointsArgs({to.function}), "cont_toR")
         ELSE IF to.file # "" /\ to.line > 0
         THEN SendStep(t, "cont_to", "setBreakpoints",
                       SetBreakpointsArgs(to.file, {to.line}), "cont_toR")
         ELSE /\ Move(t, "cont_toR", res[t], loc[t])
              /\ UNCHANGED <<dsVars, procs, chanVars, adVars, cntVars>>
continueExecution_toRead(t) ==
  ReadStep(t, "cont_toR", ReadAnyMessage(Msg), "cont_send", None)
continueExecution_continue(t) ==
  SendStep(t, "cont_send", "continue", NoArg, "cont_wait")
continueExecution_wait(t) ==
  ReadStep(t, "cont_wait", WaitStopped(Msg), "ctx_stack", None)

StepCommand(mode) ==
  CASE mode = "over" -> "next" [] mode = "in" -> "stepIn" [] mode = "out" -> "stepOut"
StepModes == {"over", "in", "out", "other"}

step(t) ==
  /\ CanCall(t)
  /\ IF NotStarted
       THEN Reject(t, "step", Err("debugger not started"))
       ELSE \E mode \in StepModes :
              IF mode \in {"over", "in", "out"}
                THEN Enter(t, "step", [mode |-> mode], "step_send")
                ELSE Reject(t, "step", Err("invalid"))
  /\ UNCHANGED <<dsVars, procs, chanVars, adVars, nFaults>>
step_send(t) ==
  /\ pc[t] = "step_send"
  /\ SendStep(t, "step_send", StepCommand(op[t].arg.mode), NoArg, "step_wait")
step_wait(t) == ReadStep(t, "step_wait", WaitStopped(Msg), "ctx_stack", None)

\* ------------------------------------------- one request, one response
\* Entry of a handler that only checks ds.client before its request.
Start(t, name, a, l) ==
  /\ CanCall(t)
  /\ IF NotStarted
       THEN Reject(t, name, Err("debugger not started"))
       ELSE Enter(t, name, a, l)
  /\ UNCHANGED <<dsVars, procs, chanVars, adVars, nFaults>>

pauseExecution(t) == Start(t, "pause", NoArg, "pause_send")
pauseExecution_send(t) == SendStep(t, "pause_send", "pause", NoArg, "pause_read")
pauseExecution_read(t) ==
  ReadStep(t, "pause_read", readAndValidateResponse(Msg), "idle", Ok("Paused execution"))

evaluateExpression(t) == Start(t, "evaluate", NoArg, "eval_send")
evaluateExpression_send(t) == SendStep(t, "eval_send", "evaluate", NoArg, "eval_read")
evaluateExpression_read(t) ==
  ReadStep(t, "eval_read", ReadTyped(Msg, "evaluate"), "idle", Ok("value"))

setVariable(t) == Start(t, "setVariable", NoArg, "setvar_send")
setVariable_send(t) == SendStep(t, "setvar_send", "setVariable", NoArg, "setvar_read")
setVariable_read(t) ==
  ReadStep(t, "setvar_read", ReadOneResponse(Msg), "idle", Ok("Set variable"))

restartDebugger(t) ==
  \E args \in ArgLists : Start(t, "restart", [args |-> args], "restart_send")
restartDebugger_send(t) ==
  /\ pc[t] = "restart_send"
  /\ SendStep(t, "restart_send", "restart",
              [args |-> op[t].arg.args, stopOnEntry |-> FALSE], "restart_read")
restartDebugger_read(t) ==
  ReadStep(t, "restart_read", readAndValidateResponse(Msg), "idle",
           Ok("Restarted debugging session"))

InfoTypes == {"sources", "modules", "other"}
InfoCommand(type) == IF type = "sources" THEN "loadedSources" ELSE "modules"

info(t) ==
  /\ CanCall(t)
  /\ IF NotStarted
       THEN Reject(t, "info", Err("debugger not started"))
       ELSE \E type \in InfoTypes :
              IF type \in {"sources", "modules"}
                THEN Enter(t, "info", [type |-> type], "info_send")
                ELSE Reject(t, "info", Err("invalid"))
  /\ UNCHANGED <<dsVars, procs, chanVars, adVars, nFaults>>
info_send(t) ==
  /\ pc[t] = "info_send"
  /\ SendStep(t, "info_send", InfoCommand(op[t].arg.type), NoArg, "info_read")
info_read(t) ==
  /\ pc[t] = "info_read"
  /\ ReadStep(t, "info_read",
              ReadOneTyped(Msg, InfoCommand(op[t].arg.type)),
              "idle", Ok("listing"))

disassembleCode(t) == Start(t, "disassemble", NoArg, "disasm_send")
disassembleCode_send(t) ==
  SendStep(t, "disasm_send", "disassemble", NoArg, "disasm_read")
disassembleCode_read(t) ==
  ReadStep(t, "disasm_read", ReadOneResponse(Msg), "idle", Ok("Disassembled code"))

\* ----------------------------------------------------------- breakpoints
BpParams == {FileBp, FuncBp, EmptyBp}

\* One call of breakpoint has arguments in the set `params`.
breakpointCall(t, params) ==
  /\ CanCall(t)
  /\ IF NotStarted
       THEN Reject(t, "breakpoint", Err("debugger not started"))
       ELSE \E bp \in params :
              IF bp.function # ""
                THEN Enter(t, "breakpoint", bp, "bp_func")
                ELSE IF bp.file = "" \/ bp.line = 0
                THEN Reject(t, "breakpoint", Err("invalid"))
                ELSE Enter(t, "breakpoint", bp, "bp_file")
  /\ UNCHANGED <<dsVars, procs, chanVars, adVars, nFaults>>

breakpoint(t) == breakpointCall(t, BpParams)

breakpoint_function(t) ==
  /\ pc[t] = "bp_func"
  /\ SendStep(t, "bp_func", "setFunctionBreakpoints",
              SetFunctionBreakpointsArgs({op[t].arg.function}), "bp_funcR")
breakpoint_functionRead(t) ==
  ReadStep(t, "bp_funcR", readAndValidateResponse(Msg), "idle", Ok("Breakpoint set"))
breakpoint_file(t) ==
  /\ pc[t] = "bp_file"
  /\ SendStep(t, "bp_file", "setBreakpoints",
              SetBreakpointsArgs(op[t].arg.file, {op[t].arg.line}), "bp_fileR")

\* tools.go:898: the one message read must be a SetBreakpointsResponse whose
\* first breakpoint is verified.
ReadBreakpoint(m) ==
  IF MsgType(m) = "setBreakpoints"
    THEN IF Len(m.body) > 0
           THEN IF m.body[1] THEN GoOn ELSE Fail("not verified")
           ELSE Fail("unexpected")
    ELSE IF MsgType(m) = "error" THEN Fail("adapter")
    ELSE Fail("unexpected")
breakpoint_fileRead(t) ==
  ReadStep(t, "bp_fileR", ReadBreakpoint(Msg), "idle", Ok("Breakpoint set"))

ClearParams == [file : {"", "f"}, all : BOOLEAN]

clearBreakpoints(t) ==
  /\ CanCall(t)
  /\ IF NotStarted
       THEN Reject(t, "clearBreakpoints", Err("debugger not started"))
       ELSE \E a \in ClearParams :
              IF a.all THEN Enter(t, "clearBreakpoints", a, "clear_all")
              ELSE IF a.file # "" THEN Enter(t, "clearBreakpoints", a, "clear_file")
              ELSE Reject(t, "clearBreakpoints", Err("invalid"))
  /\ UNCHANGED <<dsVars, procs, chanVars, adVars, nFaults>>

clearBreakpoints_all(t) ==
  SendStep(t, "clear_all", "setFunctionBreakpoints",
           SetFunctionBreakpointsArgs({}), "clear_allR")
clearBreakpoints_allRead(t) ==
  ReadStep(t, "clear_allR", ReadAnyMessage(Msg), "idle", Ok("Cleared all breakpoints"))
clearBreakpoints_file(t) ==
  /\ pc[t] = "clear_file"
  /\ SendStep(t, "clear_file", "setBreakpoints",
              SetBreakpointsArgs(op[t].arg.file, {}), "clear_fileR")
clearBreakpoints_fileRead(t) ==
  ReadStep(t, "clear_fileR", ReadAnyMessage(Msg), "idle", Ok("Cleared breakpoints in file"))

\* ------------------------------------------------------------------ Next
Handler(t) ==
  \/ stop(t) \/ stop_terminate(t) \/ stop_disconnect(t) \/ stop_close(t)
  \/ stop_kill(t)
  \/ debug(t) \/ debug_start(t) \/ debug_ready(t)
  \/ debug_initialize(t) \/ debug_initializeRead(t)
  \/ debug_launch(t) \/ debug_launchRead(t)
  \/ debug_setBreakpoint(t) \/ debug_functionBreakpointRead(t)
  \/ debug_breakpointRead(t)
  \/ debug_configurationDone(t) \/ debug_configurationDoneRead(t)
  \/ debug_continue(t) \/ debug_wait(t)
  \/ context(t)
  \/ getFullContext_stackTrace(t) \/ getFullContext_stackTraceRead(t)
  \/ getFullContext_scopes(t) \/ getFullContext_scopesRead(t)
  \/ getFullContext_variables(t) \/ getFullContext_variablesRead(t)
  \/ getFullContext_return(t)
  \/ continueExecution(t) \/ continueExecution_to(t) \/ continueExecution_toRead(t)
  \/ continueExecution_continue(t) \/ continueExecution_wait(t)
  \/ step(t) \/ step_send(t) \/ step_wait(t)
  \/ pauseExecution(t) \/ pauseExecution_send(t) \/ pauseExecution_read(t)
  \/ evaluateExpression(t) \/ evaluateExpression_send(t) \/ evaluateExpression_read(t)
  \/ setVariable(t) \/ setVariable_send(t) \/ setVariable_read(t)
  \/ restartDebugger(t) \/ restartDebugger_send(t) \/ restartDebugger_read(t)
  \/ info(t) \/ info_send(t) \/ info_read(t)
  \/ disassembleCode(t) \/ disassembleCode_send(t) \/ disassembleCode_read(t)
  \/ breakpoint(t) \/ breakpoint_function(t) \/ breakpoint_functionRead(t)
  \/ breakpoint_file(t) \/ breakpoint_fileRead(t)
  \/ clearBreakpoints(t) \/ clearBreakpoints_all(t) \/ clearBreakpoints_allRead(t)
  \/ clearBreakpoints_file(t) \/ clearBreakpoints_fileRead(t)

\* Tool calls arrive one at a time: a single caller.
Next == Handler(1) \/ Environment
Spec == Init /\ [][Next]_vars

\* Tool calls arrive concurrently: two callers, each in a handler of its own,
\* for a session started without initial breakpoints.  debug is called while
\* no other handler runs; every other handler may start at any time, also
\* while debug runs.  A handler that finds ds.client nil at a client call
\* panics.
ConcInputs == {a \in StartInputs : a.mode = "binary" /\ a.path # "" /\ a.breakpoints = <<>>}
debugConc(t) == (\A u \in AllCallers : pc[u] = "idle") /\ debugCall(t, ConcInputs)

ConcHandler(t) ==
  \/ stop(t) \/ stop_terminate(t) \/ stop_disconnect(t) \/ stop_close(t)
  \/ stop_kill(t)
  \/ debugConc(t) \/ debug_start(t) \/ debug_ready(t)
  \/ debug_initialize(t) \/ debug_initializeRead(t)
  \/ debug_launch(t) \/ debug_launchRead(t)
  \/ debug_configurationDone(t) \/ debug_configurationDoneRead(t)
  \/ getFullContext_stackTrace(t) \/ getFullContext_stackTraceRead(t)
  \/ getFullContext_scopes(t) \/ getFullContext_scopesRead(t)
  \/ getFullContext_variables(t) \/ getFullContext_variablesRead(t)
  \/ getFullContext_return(t)
  \/ step(t) \/ step_send(t) \/ step_wait(t)
  \/ evaluateExpression(t) \/ evaluateExpression_send(t) \/ evaluateExpression_read(t)

NextConc == (\E t \in AllCallers : ConcHandler(t)) \/ Environment
SpecConc == Init /\ [][NextConc]_vars

\* Calls that set breakpoints in two files, on two lines of one file and on
\* two functions: debug stopping on entry with two initial breakpoints, then
\* breakpoint and clearBreakpoints.
BpStartInputs ==
  {[mode |-> "source", path |-> "prog", processID |-> 0, args |-> <<"a">>,
    breakpoints |-> b, stopOnEntry |-> TRUE] :
     b \in {<<FileBp, FileBp9>>, <<FileBpH, FuncBp>>}}
BpParamsBp == {FileBp, FileBp9, FuncBp, FuncBpK}
debugBp(t) == debugCall(t, BpStartInputs)
breakpointBp(t) == breakpointCall(t, BpParamsBp)

BpHandler(t) ==
  \/ debugBp(t) \/ debug_start(t) \/ debug_ready(t)
  \/ debug_initialize(t) \/ debug_initializeRead(t)
  \/ debug_launch(t) \/ debug_launchRead(t)
  \/ debug_setBreakpoint(t)
  \/ debug_functionBreakpointRead(t) \/ debug_breakpointRead(t)
  \/ debug_configurationDone(t) \/ debug_configurationDoneRead(t)
  \/ breakpointBp(t)
  \/ breakpoint_function(t) \/ breakpoint_functionRead(t)
  \/ breakpoint_file(t) \/ breakpoint_fileRead(t)
  \/ clearBreakpoints(t)
  \/ clearBreakpoints_all(t) \/ clearBreakpoints_allRead(t)
  \/ clearBreakpoints_file(t) \/ clearBreakpoints_fileRead(t)

\* No call of these resumes the debuggee, so it neither stops nor exits.
EnvironmentBp ==
  \/ \E p \in Pids : ProcReady(p)
  \/ \E p \in Pids : ProcExit(p)
  \/ AdapterHandle
  \/ AdapterOutput

NextBp == BpHandler(1) \/ EnvironmentBp
SpecBp == Init /\ [][NextBp]_vars

\* The breakpoint calls together with continue, its `to` included, and the
\* snapshot it returns: the debuggee runs, stops and exits.
ToHandler(t) ==
  \/ BpHandler(t)
  \/ continueExecution(t) \/ continueExecution_to(t) \/ continueExecution_toRead(t)
  \/ continueExecution_continue(t) \/ continueExecution_wait(t)
  \/ getFullContext_stackTrace(t) \/ getFullContext_stackTraceRead(t)
  \/ getFullContext_scopes(t) \/ getFullContext_scopesRead(t)
  \/ getFullContext_variables(t) \/ getFullContext_variablesRead(t)
  \/ getFullContext_return(t)

NextTo == ToHandler(1) \/ Environment
SpecTo == Init /\ [][NextTo]_vars

\* Calls that resume and interrupt the debuggee of a session started with a
\* stop on entry and without initial breakpoints: the only breakpoints are
\* the ones continue sets for its `to`.
RunStartInputs ==
  {[mode |-> "source", path |-> "prog", processID |-> 0, args |-> <<"a">>,
    breakpoints |-> <<>>, stopOnEntry |-> TRUE]}
debugRun(t) == debugCall(t, RunStartInputs)

\* context with each of its parameters given or left out.
contextRun(t) == contextCall(t, ContextParams)

RunHandler(t) ==
  \/ debugRun(t) \/ debug_start(t) \/ debug_ready(t)
  \/ debug_initialize(t) \/ debug_initializeRead(t)
  \/ debug_launch(t) \/ debug_launchRead(t)
  \/ debug_configurationDone(t) \/ debug_configurationDoneRead(t)
  \/ contextRun(t)
  \/ getFullContext_stackTrace(t) \/ getFullContext_stackTraceRead(t)
  \/ getFullContext_scopes(t) \/ getFullContext_scopesRead(t)
  \/ getFullContext_variables(t) \/ getFullContext_variablesRead(t)
  \/ getFullContext_return(t)
  \/ continueExecution(t) \/ continueExecution_to(t) \/ continueExecution_toRead(t)
  \/ continueExecution_continue(t) \/ continueExecution_wait(t)
  \/ step(t) \/ step_send(t) \/ step_wait(t)
  \/ pauseExecution(t) \/ pauseExecution_send(t) \/ pauseExecution_read(t)

NextRun == RunHandler(1) \/ Environment
SpecRun == Init /\ [][NextRun]_vars

\* The caller cancels the ctx of its call in progress, or its deadline
\* passes.  No handler reads its ctx parameter.
Cancel(t) ==
  /\ pc[t] # "idle"
  /\ ~loc[t].cancelled
  /\ loc' = [loc EXCEPT ![t].cancelled = TRUE]
  /\ UNCHANGED <<dsVars, procs, chanVars, adVars, pc, op, res, cntVars>>

\* The same calls with cancellation, under the scheduling of the program: a
\* handler that can take its next step takes it, and the adapter answers the
\* requests it has received.  The subprocess may stay silent and the
\* debuggee may run for ever.
NextLive == RunHandler(1) \/ Environment \/ Cancel(1)
SpecLive ==
  Init /\ [][NextLive]_vars /\ WF_vars(RunHandler(1)) /\ WF_vars(AdapterHandle)

\* A second caller stops the session while the first makes the resume-type
\* calls.  stop's steps wait for nothing, so a stop that can take its next
\* step takes it; the adapter and the debuggee are under no obligation.
StopCall(t) ==
  \/ stop(t)
  \/ stop_terminate(t) \/ stop_disconnect(t) \/ stop_close(t) \/ stop_kill(t)

NextStop == RunHandler(1) \/ StopCall(2) \/ Environment
SpecStop == Init /\ [][NextStop]_vars /\ WF_vars(StopCall(2))

\* Calls that interrupt, inspect and resume a debuggee left running: debug attaches
\* to a process without breakpoints, pause is acknowledged, and the debuggee
\* stops only because of a pause, after pause has returned; it does not exit.
PauseStartInputs ==
  {a \in StartInputs : a.mode = "attach" /\ a.processID # 0 /\ a.path = ""
                         /\ a.breakpoints = <<>> /\ ~a.stopOnEntry}
debugPause(t) == debugCall(t, PauseStartInputs)
PausedStops ==
  /\ pc[1] = "idle" /\ op[1].name = "pause" /\ res[1] = Ok("Paused execution")
  /\ DebuggeeStops

PauseHandler(t) ==
  \/ debugPause(t) \/ debug_start(t) \/ debug_ready(t)
  \/ debug_initialize(t) \/ debug_initializeRead(t)
  \/ debug_launch(t) \/ debug_launchRead(t)
  \/ debug_configurationDone(t) \/ debug_configurationDoneRead(t)
  \/ pauseExecution(t) \/ pauseExecution_send(t) \/ pauseExecution_read(t)
  \/ context(t)
  \/ getFullContext_stackTrace(t) \/ getFullContext_stackTraceRead(t)
  \/ getFullContext_scopes(t) \/ getFullContext_scopesRead(t)
  \/ getFullContext_variables(t) \/ getFullContext_variablesRead(t)
  \/ getFullContext_return(t)
  \/ evaluateExpression(t) \/ evaluateExpression_send(t) \/ evaluateExpression_read(t)
  \/ info(t) \/ info_send(t) \/ info_read(t)
  \/ continueExecution(t) \/ continueExecution_to(t) \/ continueExecution_toRead(t)
  \/ continueExecution_continue(t) \/ continueExecution_wait(t)
  \/ step(t) \/ step_send(t) \/ step_wait(t)

NextPause ==
  \/ PauseHandler(1)
  \/ \E p \in Pids : ProcReady(p)
  \/ \E p \in Pids : ProcExit(p)
  \/ AdapterHandle
  \/ PausedStops
  \/ AdapterOutput
SpecPause == Init /\ [][NextPause]_vars

\* ============================================================== properties
Alive(p) == procs[p] \in {"starting", "listening"}
Called(t) == op'[t].id # op[t].id
Returned(t) == pc[t] = "idle" /\ op[t].id # 0
SessionVars == <<dsVars, procs, chanVars, adVars>>

\* Sequence numbers of requests whose response has not been read.
Unresolved ==
  {toAdapter[k].seq : k \in DOMAIN toAdapter} \cup
  {toClient[k].rseq : k \in {j \in DOMAIN toClient : IsResponse(toClient[j])}}

\* C1: every subprocess that is alive is the one ds.cmd references, so at
\* most one is alive and none runs without an owner.
C1_OneOwnedSubprocess ==
  \A p \in Pids : Alive(p) => cmd.set /\ cmd.pid = p

\* C2: at most one handler at a time is between its first client call and
\* its return: the client calls of two handlers never interleave.
C2_HandlersExclusive ==
  Cardinality({t \in AllCallers : pc[t] # "idle" /\ loc[t].io}) <= 1

\* C3: when a handler has returned and the connection is up, every request
\* sent on it has had its response read: none is left unresolved.
C3_EveryRequestResolved ==
  (Returned(1) /\ ConnUp) => Unresolved = {}

\* C4: a response a handler reads is the response to the request it sent last.
C4_ResponseCorrelates ==
  \A t \in AllCallers : loc[t].got # 0 => loc[t].got = loc[t].own

\* C5: a one-request handler that read an event during its exchange still
\* returns on the response of its own request and leaves it not unread.
SingleExchange ==
  {"breakpoint", "clearBreakpoints", "evaluate", "setVariable", "pause",
   "restart", "info", "disassemble"}
C5_EventsDoNotDecide ==
  \A t \in AllCallers :
    (Returned(t) /\ op[t].name \in SingleExchange /\ loc[t].ev
       /\ res[t] # Err("transport"))
    => (loc[t].got = loc[t].own /\ loc[t].own \notin Unresolved)

\* C6: a handler other than debug and stop that is called while ds.client is
\* nil returns "debugger not started" in the step of the call, with no
\* request sent, no message read and the session untouched.
C6_NoSessionFailsAtOnce ==
  [][\A t \in AllCallers :
       (Called(t) /\ client = 0 /\ op'[t].name \notin {"debug", "stop"})
       => (/\ pc'[t] = "idle"
           /\ res'[t] = Err("debugger not started")
           /\ UNCHANGED SessionVars)]_vars
C6_Witness ==
  /\ Returned(1) /\ op[1].name = "step"
  /\ res[1] = Err("debugger not started") /\ cmd.set

\* C7: after a handler has failed on the connection, the next call of a
\* handler other than debug and stop reports that no session is active.
C7_TransportFailureEndsSession ==
  [][(Returned(1) /\ res[1] = Err("transport") /\ Called(1)
        /\ op'[1].name \notin {"debug", "stop"})
     => res'[1] = Err("debugger not started")]_vars

\* C8: a handler that has read a response with success=false returns an error.
C8_FailureIsReported ==
  \A t \in AllCallers : (Returned(t) /\ loc[t].nack) => res[t].kind = "err"

\* C9: stop called with ds.cmd and ds.client nil returns the neutral result
\* in the step of the call and changes nothing; stop never returns an error.
C9_StopIdempotent ==
  /\ [][\A t \in AllCallers :
          (Called(t) /\ op'[t].name = "stop" /\ ~cmd.set /\ client = 0)
          => (/\ pc'[t] = "idle"
              /\ res'[t] = Ok("No debug session active")
              /\ UNCHANGED SessionVars)]_vars
  /\ [](\A t \in AllCallers : op[t].name = "stop" => res[t].kind # "err")
C9_Witness ==
  /\ Returned(1) /\ res[1] = Ok("No debug session active")
  /\ \E p \in Pids : procs[p] = "exited"

\* C10: when stop has returned the session is Idle: no subprocess handle, no
\* connection, launch mode, program path and arguments cleared.
C10_StopReturnsToIdle ==
  (Returned(1) /\ op[1].name = "stop")
  => (/\ ~cmd.set /\ client = 0
      /\ launchMode = "" /\ programPath = "" /\ programArgs = <<>>)

\* C11: with a connection, stop goes through terminate, disconnect, close,
\* kill-and-reap in this order; a send is attempted at each of the first two
\* steps and its failure does not end the call; the subprocess is dead when
\* stop returns "Debug session stopped".
StopSteps ==
  [stop_terminate |-> "stop_disconnect", stop_disconnect |-> "stop_close",
   stop_close |-> "stop_kill", stop_kill |-> "idle"]
C11_StopStepsInOrder ==
  [][\A t \in AllCallers :
       /\ (Called(t) /\ op'[t].name = "stop" /\ client # 0)
            => pc'[t] = "stop_terminate"
       /\ (pc[t] \in DOMAIN StopSteps /\ pc'[t] # pc[t])
            => /\ pc'[t] = StopSteps[pc[t]]
               /\ pc[t] \in {"stop_terminate", "stop_disconnect"} => seq' = seq + 1
               /\ pc[t] = "stop_close" => (client' = 0 /\ ~connOpen')
               /\ pc[t] = "stop_kill" =>
                    /\ res'[t] = Ok("Debug session stopped")
                    /\ HasProcess => (procs'[cmd.pid] = "exited" /\ ~cmd'.set)]_vars
C11_Witness ==
  /\ pc[1] = "stop_kill" /\ loc[1].io
  /\ HasProcess /\ procs[cmd.pid] = "exited"

\* C12: a call of debug either is refused as invalid or has a mode among
\* source, binary and attach, with a path (source, binary) or a processID
\* (attach); refused or not, the step of the call spawns nothing, opens no
\* connection and changes no session field.
C12_StartValidatesFirst ==
  [][\A t \in AllCallers :
       (Called(t) /\ op'[t].name = "debug")
       => /\ UNCHANGED SessionVars
          /\ IF pc'[t] = "idle"
               THEN res'[t] = Err("invalid")
               ELSE LET a == op'[t].arg IN
                    /\ a.mode \in {"source", "binary", "attach"}
                    /\ a.mode = "attach" => a.processID # 0
                    /\ a.mode \in {"source", "binary"} => a.path # ""]_vars
C12_Witness ==
  /\ Returned(1) /\ op[1].name = "debug" /\ res[1] = Err("invalid")
  /\ client # 0 /\ cmd.set

\* C13: a call with malformed parameters does no I/O; for continue with a
\* `to` that names neither a function nor a file and line: the handler never
\* calls the client.
C13_MalformedToRejected ==
  \A t \in AllCallers :
    (op[t].name = "continue" /\ op[t].arg = EmptyBp) => ~loc[t].io

\* C14: each step of debug awaits the response of its request before the
\* next request is sent, so when debug returns successfully no request it
\* sent is without a response read.
C14_StartAwaitsEachResponse ==
  \A t \in AllCallers :
    (Returned(t) /\ op[t].name = "debug" /\ res[t].kind = "ok") => Unresolved = {}

\* C15: debug sends its one continue, waits for a stopped or terminated
\* event and goes on to the context snapshot exactly when breakpoints were
\* supplied and stopOnEntry is false; otherwise it returns the lightweight
\* status as soon as configurationDone is answered and sends no continue,
\* stackTrace, scopes or variables request.
Resuming ==
  {"debug_cont", "debug_wait", "ctx_stack", "ctx_stackR", "ctx_scopes",
   "ctx_scopesR", "ctx_vars", "ctx_varsR"}
RunsToBreakpoint(t) ==
  Len(op[t].arg.breakpoints) > 0 /\ ~op[t].arg.stopOnEntry
Armed(bp) ==
  IF bp.function # "" THEN bp.function \in funcBps
  ELSE bp.line \in fileBps[bp.file]
C16_EveryBreakpointArmed ==
  \A t \in AllCallers :
    (op[t].name = "debug" /\ pc[t] = "debug_confR" /\ nFaults = 0)
    => \A k \in DOMAIN op[t].arg.breakpoints : Armed(op[t].arg.breakpoints[k])

\* C17: when the adapter carries out a setBreakpoints request for a file,
\* that file's table becomes the lines of the request, and the tables of the
\* other files and the function table stay as they were; when it carries out
\* a setFunctionBreakpoints request, the function table becomes the functions
\* of the request and the file tables stay as they were.
CarriesOut ==
  /\ toAdapter # <<>>
  /\ toAdapter' = Tail(toAdapter)
  /\ Len(toClient') = Len(toClient) + 1
  /\ toClient'[Len(toClient')].success
C18_ClearAllClearsAll ==
  \A t \in AllCallers :
    (Returned(t) /\ res[t] = Ok("Cleared all breakpoints") /\ nFaults = 0)
    => (funcBps = {} /\ fileBps = NoFileBps)

\* C19: when clearBreakpoints with file f has returned its success and the
\* adapter, still up, has handled every request sent to it, f has no
\* breakpoint.
C19_ClearFileClearsFile ==
  \A t \in AllCallers :
    (Returned(t) /\ res[t] = Ok("Cleared breakpoints in file") /\ PeerUp /\ toAdapter = <<>>)
    => fileBps["f"] = {}

\* C20: when continue with a `to` target is about to send its continue
\* request, and neither the adapter nor the subprocess has misbehaved, the
\* last response it has read is the one to its breakpoint request.
C20_ToAnsweredBeforeContinue ==
  \A t \in AllCallers :
    (op[t].name = "continue" /\ pc[t] = "cont_send" /\ op[t].arg \in {FileBp, FuncBp}
       /\ nFaults = 0)
    => loc[t].got = loc[t].own

\* C22: when a step call has read the Stopped event on which it takes its
\* snapshot, and neither the adapter nor the subprocess has misbehaved, the
\* adapter has carried out the single-step request of that call: the stop is
\* the one after one more step.
C22_StepStopsAfterItsStep ==
  \A t \in AllCallers :
    (op[t].name = "step" /\ pc[t] = "ctx_stack" /\ nFaults = 0)
    => \A k \in DOMAIN toAdapter : toAdapter[k].seq # loc[t].own

\* C21: in a session whose only breakpoints are those continue sets for its
\* `to`, when a continue call has returned its snapshot and neither the
\* adapter nor the subprocess has misbehaved, no breakpoint is armed.
C21_ToBreakpointIsOneShot ==
  \A t \in AllCallers :
    (Returned(t) /\ op[t].name = "continue" /\ res[t] = Ok("context") /\ nFaults = 0)
    => (funcBps = {} /\ fileBps = NoFileBps)

\* C23: in a session in which the debuggee stops only because of a pause
\* that has returned, and neither the adapter nor the subprocess has
\* misbehaved, an inspection call with valid arguments in a started session
\* does not fail.
C23_StopAfterPauseHarmless ==
  \A t \in AllCallers :
    (Returned(t) /\ op[t].name \in {"context", "evaluate", "info"}
       /\ res[t] \notin {Err("invalid"), Err("debugger not started")} /\ nFaults = 0)
    => res[t].kind = "ok"

\* C24: in a session started without a fault, the restart request a restart
\* call has sent carries the caller's args when the caller gave some and the
\* args stored at start otherwise.
C24_RestartReusesStoredArgs ==
  \A t \in AllCallers :
    (pc[t] = "restart_read" /\ nFaults = 0)
    => \A k \in DOMAIN toAdapter :
         toAdapter[k].command = "restart"
         => toAdapter[k].arg.args =
              IF op[t].arg.args = <<>> THEN programArgs ELSE op[t].arg.args

\* C28: getFullContext goes on from its stackTrace request only when the
\* request was written to a working connection, and from its read only with a
\* successful StackTraceResponse; a failed send, a failed read and a response
\* that is not a successful StackTraceResponse end the call with an error,
\* with nothing of the snapshot written and no further request sent.
StackTraceRead == IsResponse(Msg) /\ Msg.name = "stackTrace" /\ Msg.success
StackFatal(t) == pc'[t] = "idle" /\ res'[t].kind = "err" /\ ~loc'[t].stack
C28_StackFailureIsFatal ==
  [][\A t \in AllCallers :
       /\ (pc[t] = "ctx_stack" /\ pc'[t] # "ctx_stack")
            => \/ pc'[t] = "ctx_stackR" /\ ConnUp
               \/ StackFatal(t) /\ toAdapter' = toAdapter
       /\ (pc[t] = "ctx_stackR" /\ pc'[t] # "ctx_stackR")
            => \/ pc'[t] = "ctx_scopes" /\ connOpen /\ toClient # <<>> /\ StackTraceRead
               \/ StackFatal(t) /\ seq' = seq
       /\ (pc[t] = "ctx_stackR" /\ toClient # <<>> /\ toClient' = Tail(toClient)
             /\ IsResponse(Msg) /\ ~StackTraceRead)
            => StackFatal(t) /\ seq' = seq]_vars
C28_Witness ==
  /\ Returned(1) /\ op[1].name = "context" /\ res[1] = Err("unexpected")
  /\ loc[1].nack /\ loc[1].got = loc[1].own /\ ~loc[1].stack

\* C29: a call that has written the stack section of its snapshot returns
\* successfully: nothing that goes wrong while it fetches the scopes of the
\* focus frame makes it fail.
C29_ScopesFailureNotFatal ==
  \A t \in AllCallers : (Returned(t) /\ loc[t].stack) => res[t].kind = "ok"

\* C30: in a snapshot returned when neither the adapter nor the subprocess
\* has misbehaved, what is written under the heading of each scope is the
\* marker or the variables of that scope's own container.
C30_ScopeFailureStaysLocal ==
  \A t \in AllCallers :
    (Returned(t) /\ res[t] = Ok("context") /\ nFaults = 0)
    => \A k \in DOMAIN loc[t].vars : loc[t].vars[k] \in {0, AdapterScopes[k]}

\* C26: a handler whose ReadMessage call fails, because the connection was
\* closed or the adapter is gone with nothing left to read, returns, and
\* returns an error.
Reading ==
  {"debug_initR", "debug_launchR", "debug_bpF", "debug_bpL", "debug_confR",
   "debug_wait", "ctx_stackR", "ctx_scopesR", "ctx_varsR", "cont_toR",
   "cont_wait", "step_wait", "pause_read", "eval_read", "setvar_read",
   "restart_read", "info_read", "disasm_read", "bp_funcR", "bp_fileR",
   "clear_allR", "clear_fileR"}
C26_DeadConnectionIsAnError ==
  [][\A t \in AllCallers :
       (pc[t] \in Reading /\ pc'[t] # pc[t] /\ client # 0 /\ ReadFails)
       => (pc'[t] = "idle" /\ res'[t].kind = "err")]_vars

\* C25: a continue or step call that waits for the debuggee to stop and
\* whose ctx has been cancelled returns.
C25_CancelEndsWait ==
  \A t \in AllCallers :
    (loc[t].cancelled /\ pc[t] \in {"cont_wait", "step_wait"}) ~> pc[t] = "idle"

\* C27: debug does not stay in its wait for the readiness line of the
\* subprocess.
C27_ReadinessWaitBounded ==
  \A t \in AllCallers : pc[t] = "debug_ready" ~> pc[t] # "debug_ready"

\* C31: when debug, called with stopOnEntry and initial breakpoints, returns
\* its success and neither the adapter nor the subprocess has misbehaved,
\* every breakpoint of its list is armed.
C31_EntryStopKeepsBreakpoints ==
  [][\A t \in AllCallers :
       (op[t].name = "debug" /\ pc[t] = "debug_confR" /\ pc'[t] = "idle"
          /\ res'[t].kind = "ok" /\ op[t].arg.stopOnEntry /\ nFaults = 0)
       => \A k \in DOMAIN op[t].arg.breakpoints : Armed(op[t].arg.breakpoints[k])]_vars

\* C32: when neither the adapter nor the subprocess has misbehaved,
\* breakpoint returns its success only on reading the response to its own
\* request with the breakpoint verified.
C32_SuccessMeansVerified ==
  [][\A t \in AllCallers :
       (pc[t] \in {"bp_funcR", "bp_fileR"} /\ pc'[t] = "idle" /\ res'[t].kind = "ok"
          /\ nFaults = 0)
       => (toClient # <<>> /\ IsResponse(Msg) /\ Msg.rseq = loc[t].own
             /\ Msg.body = <<TRUE>>)]_vars

\* C33: a snapshot sends one stackTrace request, one scopes request and one
\* variables request for each scope whose variables reference is not zero, in
\* this order.  The stackTrace request is for the thread and the number of
\* frames given to context, thread 1 and 20 frames when they are left out; the
\* scopes request is for the frame given to context, the top frame of the
\* stack just read when it is left out; and a step of the snapshot that
\* sends nothing is the skip of a scope without variables or a failure.
SnapshotSends(t, command, arg) ==
  /\ seq' = seq + 1
  /\ toAdapter' = Append(toAdapter, Request(seq, command, arg))
EndsWait(t) ==
  /\ pc[t] \in {"cont_wait", "step_wait"} /\ pc'[t] # pc[t]
  /\ toClient # <<>> /\ toClient' = Tail(toClient)
  /\ IsEvent(Msg) /\ Msg.name \in {"stopped", "terminated"}
C34_WaitEndsOnOwnEvent ==
  [][\A t \in AllCallers : (EndsWait(t) /\ nFaults = 0) =>
       /\ dbg # "running"
       /\ \A k \in DOMAIN toAdapter : toAdapter[k].seq # loc[t].own]_vars

\* C35: the message a snapshot takes for the variables of a scope is the
\* response to the variables request it sent for that scope, whatever events
\* and responses are in the connection, and when a snapshot returns no
\* variables request is left without its response read.
ReadsVariables(t) ==
  /\ pc[t] = "ctx_varsR" /\ pc'[t] = "ctx_vars"
  /\ toClient # <<>> /\ toClient' = Tail(toClient)
VariablesPending ==
  \/ \E k \in DOMAIN toAdapter : toAdapter[k].command = "variables"
  \/ \E k \in DOMAIN toClient : IsResponse(toClient[k]) /\ toClient[k].name = "variables"
C35_VariablesOfOwnScope ==
  [][\A t \in AllCallers : nFaults = 0 =>
       /\ ReadsVariables(t) =>
            (IsResponse(Msg) /\ Msg.name = "variables" /\ Msg.rseq = loc[t].own)
       /\ (pc[t] = "ctx_vars" /\ pc'[t] = "idle" /\ res'[t] = Ok("context")) =>
            ~VariablesPending]_vars

\* C36: when the wait of debug's automatic resume ends on a Terminated event,
\* debug returns the notice that the program terminated and sends no
\* stackTrace, scopes or variables request.
C36_StartReportsTermination ==
  [][\A t \in AllCallers :
       (/\ op[t].name = "debug" /\ pc[t] = "debug_wait" /\ pc'[t] # pc[t]
        /\ toClient # <<>> /\ toClient' = Tail(toClient)
        /\ IsEvent(Msg) /\ Msg.name = "terminated" /\ nFaults = 0)
       => (pc'[t] = "idle" /\ res'[t] = Ok("Program terminated"))]_vars

\* C37: when debug returns an error after it has spawned the subprocess, no
\* subprocess is alive and the session is Idle: ds.cmd and ds.client are nil.
C37_FailedStartCleansUp ==
  [][\A t \in AllCallers :
       (/\ op[t].name = "debug" /\ pc[t] \notin {"idle", "debug_start"}
        /\ pc'[t] = "idle" /\ res'[t].kind = "err")
       => /\ \A p \in Pids : procs'[p] \notin {"starting", "listening"}
          /\ ~cmd'.set /\ client' = 0]_vars

\* C38: the request continue sends for its `to` target leaves the breakpoints
\* set before armed: when the adapter carries it out, every line that was in
\* the table of a file is still in it, and every function that was in the
\* function table is still in it.
CarriesOutTo(t) ==
  /\ op[t].name = "continue" /\ pc[t] = "cont_toR"
  /\ toAdapter # <<>> /\ Head(toAdapter).seq = loc[t].own
  /\ toAdapter' = Tail(toAdapter)
C38_ToKeepsBreakpoints ==
  [][\A t \in AllCallers : (CarriesOutTo(t) /\ nFaults = 0) =>
       /\ \A x \in Files : fileBps[x] \subseteq fileBps'[x]
       /\ funcBps \subseteq funcBps']_vars

\* C39: stop reads nothing while it sends terminate and disconnect, and a
\* stop that has started returns, whether or not the adapter answers and
\* whether or not another call is waiting for an event.
C39_StopReturns ==
  /\ [][\A t \in AllCallers :
          (pc[t] \in {"stop_terminate", "stop_disconnect"} /\ pc'[t] # pc[t])
          => (toClient' = toClient /\ loc'[t].got = loc[t].got)]_vars
  /\ \A t \in AllCallers : (pc[t] \in DOMAIN StopSteps) ~> (pc[t] = "idle")
C39_Witness ==
  /\ Returned(2) /\ op[2].name = "stop" /\ res[2] = Ok("Debug session stopped")
  /\ pc[1] \in {"cont_wait", "step_wait"}

\* C40: the stopOnEntry of debug's launch request is true exactly when
\* stopOnEntry was asked for or no breakpoint was given, and debug goes on
\* to its continue request and wait exactly when that flag is false: a
\* launch that returns the started status leaves a debuggee that was told to
\* stop on entry and is not running.
C40_LaunchFlagMirrorsResume ==
  [][\A t \in AllCallers :
       (pc[t] # "idle" /\ op[t].name = "debug" /\ op[t].arg.mode # "attach") =>
         LET a == op[t].arg
             flag == a.stopOnEntry \/ Len(a.breakpoints) = 0
         IN /\ (pc[t] = "debug_launch" /\ pc'[t] = "debug_launchR") =>
                 toAdapter' = Append(toAdapter,
                   Request(seq, "launch",
                           [mode |-> a.mode, args |-> a.args, stopOnEntry |-> flag]))
            /\ (pc[t] = "debug_confR" /\ pc'[t] # pc[t] /\ res'[t].kind # "err") =>
                 (pc'[t] = "debug_cont" <=> ~flag)
            /\ (pc[t] = "debug_confR" /\ pc'[t] = "idle" /\ res'[t].kind = "ok"
                  /\ nFaults = 0) =>
                 (entryStop /\ dbg # "running")]_vars
C40_Witness ==
  /\ pc[1] = "debug_wait" /\ op[1].arg.mode = "source"
  /\ ~op[1].arg.stopOnEntry /\ Len(op[1].arg.breakpoints) > 0
  /\ ~entryStop /\ dbg = "running" /\ nFaults = 0

====
